---- MODULE Spec2Model ----
(***************************************************************************)
(* Model of torch2trt/module.py: TensorRTModule / TensorRTModuleWrapper.   *)
(* One module instance, its parameter store (state_dict), the engine that  *)
(* build_tensorrt compiles and the refit transaction of refit_engine.      *)
(* Every handler (__call__, train/eval, a parameter update) is one action; *)
(* the variable `call` records what the last handler did, in code order.   *)
(*                                                                         *)
(* Spec      the module under calls, mode switches and parameter updates   *)
(* OutSpec   calls on networks with any outputs, batches, result orders    *)
(* FoldSpec  calls on networks with any batch-norm parameters              *)
(* RefitSpec refit_engine step by step, with a concurrent writer           *)
(***************************************************************************)
EXTENDS Integers, Sequences, FiniteSets, TLC

VARIABLES
    training,           \* nn.Module.training (set by train()/eval())
    built,              \* self.built
    need_refit,         \* self.need_refit
    refit_weight_dict,  \* self.refit_weight_dict: ordered items <<[k, v], ...>>
    engine,             \* self.engine: NoEngine or [weights |-> slot -> buffer]
    ctx,                \* self.ctx: "None" or "TorchInferenceContext"
    output_names,       \* self.output_names: NoneValue or a list of names
    output_shapes,      \* self.output_shapes: NoneValue or name -> shape
    state_dict,         \* net.state_dict(): parameter name -> value
    on_host,            \* the parameters whose tensor lives in host memory
    buildEntered,       \* whether build_tensorrt was ever entered
    call,               \* observation of the last handler (see Record)
    tx                  \* a refit_engine call in progress, loop iteration by
                        \* loop iteration (see RefitSpec)

vars == <<training, built, need_refit, refit_weight_dict, engine, ctx,
          output_names, output_shapes, state_dict, on_host, buildEntered, call, tx>>

(***************************************************************************)
(* Bounds of the model.                                                    *)
(***************************************************************************)
\* parameter values range over 0..MaxVal (whole numbers, in fixed point)
MaxVal == 1
\* fixed-point resolution: the integer n stands for the real number n / Q
Q == 4
\* a network returns 1..MaxOutputs tensors
MaxOutputs == 3
\* a call is made on a batch of 1..MaxBatch samples
MaxBatch == 4

(***************************************************************************)
(* Numbers: numpy arithmetic as rounded fixed-point arithmetic.            *)
(***************************************************************************)
Vals == {i * Q : i \in 0..MaxVal}

\* floor division that also takes a negative numerator
FloorDiv(a, b) == IF a >= 0 THEN a \div b ELSE -((-a + b - 1) \div b)

\* the integer square root: the largest r with r * r <= n
ISqrt(n) == CHOOSE r \in 0..(n + 1) : r * r <= n /\ (r + 1) * (r + 1) > n

\* np.sqrt on a fixed-point number
FxSqrt(x) == ISqrt(x * Q)
\* a / b and a * b on fixed-point numbers
FxDiv(a, b) == FloorDiv(a * Q, b)
FxMul(a, b) == FloorDiv(a * b, Q)

(***************************************************************************)
(* The network, its parameters and the weight-role table.                  *)
(***************************************************************************)
\* the keys of net.state_dict()
StoreNames == {"conv.weight", "bn.weight", "bn.bias", "bn.running_mean",
               "bn.running_var", "fc.weight", "fc.bias"}

\* the parameters an optimizer step or a batch-norm statistics update rewrites
\* in this model (one per layer)
Trained == {"conv.weight", "bn.running_var", "fc.bias"}

\* the numeric type of each parameter (the convolution runs in half precision)
ParamDtype(name) == IF name = "conv.weight" THEN "float16" ELSE "float32"

\* v["eps"] of the batch-norm entry, in fixed point
Eps == 1

ConvEntry == [type |-> "Convolution", weight |-> "conv.weight"]
BNEntry == [type |-> "BatchNorm", weight |-> "bn.weight", bias |-> "bn.bias",
            running_mean |-> "bn.running_mean",
            running_var |-> "bn.running_var", eps |-> Eps]
FCEntry == [type |-> "Linear", weight |-> "fc.weight", bias |-> "fc.bias"]

Item(k, v) == [k |-> k, v |-> v]

\* the table of a tracer that agrees with the network
TableOk == <<Item("conv", ConvEntry), Item("bn", BNEntry), Item("fc", FCEntry)>>
\* the tracer dropped the batch-norm layer
TableShort == <<Item("conv", ConvEntry), Item("fc", FCEntry)>>
\* the tracer recorded the linear layer without its bias
TableNoBias == <<Item("conv", ConvEntry), Item("bn", BNEntry),
                 Item("fc", [type |-> "Linear", weight |-> "fc.weight"])>>
\* an entry names a parameter that state_dict() does not hold
TableAbsent == <<Item("conv", ConvEntry),
                 Item("fc", [type |-> "Linear", weight |-> "fc.weight",
                             bias |-> "head.bias"]),
                 Item("bn", BNEntry)>>
\* an entry of a kind refit_engine does not know
TableUnknown == <<Item("fc", FCEntry),
                  Item("act", [type |-> "PReLU", weight |-> "act.weight"]),
                  Item("bn", BNEntry), Item("conv", ConvEntry)>>

\* what graph_pth.graph.refit_weight_dict can be after a trace
Tables == {TableOk, TableShort, TableNoBias, TableAbsent, TableUnknown}

Slot(k, role) == <<k, role>>
\* the refittable weights of the compiled network
NetSlots == {Slot("conv", "KERNEL"), Slot("bn", "SCALE"), Slot("bn", "SHIFT"),
             Slot("fc", "KERNEL"), Slot("fc", "BIAS")}

(***************************************************************************)
(* Errors: the exception a handler raises, as its type, its constant text  *)
(* and the values formatted into it.                                       *)
(***************************************************************************)
Exc(type, text, args) == [type |-> type, text |-> text, args |-> args]
NoError == Exc("", "", {})

KeyError(name) == Exc("KeyError", "", {name})
NotImplemented == Exc("NotImplementedError", "", {})
MissingAssert ==
    Exc("AssertionError",
        "Refitter found missing weights. Call set_weights() for all missing weights",
        {})
BareAssert == Exc("AssertionError", "", {})
NoneTypeError ==
    Exc("AttributeError", "'NoneType' object has no attribute 'create_execution_context'", {})
TracerError == Exc("TracerException", "", {})

(***************************************************************************)
(* Weight-role mapping: the body of the loop of refit_engine.              *)
(***************************************************************************)
Has(sd, name) == name \in DOMAIN sd

\* An array object: its numbers, its numeric type, the parameter whose
\* memory it shares ("" when it owns its memory) and the set_weights call
\* it was handed to (its identity within one transaction).
Array(val, dtype, base) == [val |-> val, dtype |-> dtype, base |-> base, id |-> <<>>]

\* state_dict[name].detach().cpu().numpy(): a host array of the same type.
\* .detach() shares the tensor's storage, .cpu() copies only a tensor that is
\* not on the host already, and .numpy() shares the host tensor's memory
Numpy(sd, name) ==
    Array(sd[name], ParamDtype(name), IF name \in on_host THEN name ELSE "")
\* .float(): the same numbers as 32-bit floats (exact from half precision);
\* a tensor that is float32 already is returned as it is
Float(buf) == IF buf.dtype = "float32" THEN buf ELSE Array(buf.val, "float32", "")

\* refitter.set_weights(k, role, buf)
Reg(k, role, buf) ==
    [slot |-> Slot(k, role), buf |-> [buf EXCEPT !.id = Slot(k, role)]]
\* what one entry did before it returned or raised: the set_weights calls it
\* made, in order, and the exception it raised (NoError when it completed)
Done(regs) == [raised |-> NoError, regs |-> regs]
Raise(exc, regs) == [raised |-> exc, regs |-> regs]

\* the first of `names` that state_dict does not hold, "" when it holds all
RECURSIVE FirstAbsent(_, _)
FirstAbsent(sd, names) ==
    IF names = <<>> THEN ""
    ELSE IF ~Has(sd, Head(names)) THEN Head(names)
    ELSE FirstAbsent(sd, Tail(names))

\* the optional bias of a Linear or Convolution entry, after its kernel
WithBias(k, v, sd, kernel) ==
    IF "bias" \in DOMAIN v
    THEN IF ~Has(sd, v.bias)
         THEN Raise(KeyError(v.bias), <<kernel>>)
         ELSE Done(<<kernel, Reg(k, "BIAS", Numpy(sd, v.bias))>>)
    ELSE Done(<<kernel>>)

LinearEntry(k, v, sd) ==
    IF ~Has(sd, v.weight) THEN Raise(KeyError(v.weight), <<>>)
    ELSE WithBias(k, v, sd, Reg(k, "KERNEL", Numpy(sd, v.weight)))

ConvolutionEntry(k, v, sd) ==
    IF ~Has(sd, v.weight) THEN Raise(KeyError(v.weight), <<>>)
    ELSE WithBias(k, v, sd, Reg(k, "KERNEL", Float(Numpy(sd, v.weight))))

\* BNScale with eps added to the standard deviation, not to the variance
BNScale_EpsOutsideRoot(weight, running_var, eps) ==
    FxDiv(weight, FxSqrt(running_var) + eps)

\* scale = weight / np.sqrt(running_var + eps)
BNScale(weight, running_var, eps) == FxDiv(weight, FxSqrt(running_var + eps))
\* shift = (-running_mean / np.sqrt(running_var + eps)) * weight + bias
BNShift(running_mean, running_var, weight, bias, eps) ==
    FxMul(FxDiv(-running_mean, FxSqrt(running_var + eps)), weight) + bias

BatchNormEntry(k, v, sd) ==
    LET absent == FirstAbsent(sd, <<v.running_var, v.running_mean, v.weight, v.bias>>)
    IN  IF absent # "" THEN Raise(KeyError(absent), <<>>)
        ELSE LET running_var == sd[v.running_var]
                 running_mean == sd[v.running_mean]
                 weight == sd[v.weight]
                 bias == sd[v.bias]
                 scale == BNScale(weight, running_var, v.eps)
                 shift == BNShift(running_mean, running_var, weight, bias, v.eps)
             IN  Done(<<Reg(k, "SCALE", Array(scale, "float32", "")),
                        Reg(k, "SHIFT", Array(shift, "float32", ""))>>)

\* the if / elif chain on v["type"]
Entry(k, v, sd) ==
    IF v.type = "Linear" THEN LinearEntry(k, v, sd)
    ELSE IF v.type = "Convolution" THEN ConvolutionEntry(k, v, sd)
    ELSE IF v.type = "BatchNorm" THEN BatchNormEntry(k, v, sd)
    ELSE Raise(NotImplemented, <<>>)

\* the refitter's staged weights after the set_weights calls `regs`
RECURSIVE SetWeights(_, _)
SetWeights(staged, regs) ==
    IF regs = <<>> THEN staged
    ELSE LET r == Head(regs)
             rest == [s \in DOMAIN staged \ {r.slot} |-> staged[s]]
         IN  SetWeights((r.slot :> r.buf) @@ rest, Tail(regs))

Bufs(regs) == [i \in 1..Len(regs) |-> regs[i].buf]
Calls(regs) == [i \in 1..Len(regs) |-> "set_weights"]

\* StageOne with the list of retained arrays made anew in every iteration
StageOne_ListInLoop(items, i, sd, t) ==
    LET e == Entry(items[i].k, items[i].v, sd)
    IN  [staged |-> SetWeights(t.staged, e.regs),
         variables |-> Bufs(e.regs),
         steps |-> t.steps \o Calls(e.regs),
         raised |-> e.raised]

\* one iteration of the loop over self.refit_weight_dict.items(), on item i;
\* t is the transaction so far: staged (slot -> array held by the refitter),
\* variables (the list that keeps the arrays alive), steps, raised
StageOne(items, i, sd, t) ==
    LET e == Entry(items[i].k, items[i].v, sd)
    IN  [staged |-> SetWeights(t.staged, e.regs),
         variables |-> t.variables \o Bufs(e.regs),
         steps |-> t.steps \o Calls(e.regs),
         raised |-> e.raised]

\* the loop from item i on, left by the first iteration that raises
RECURSIVE Stage(_, _, _, _)
Stage(items, i, sd, t) ==
    IF i > Len(items) THEN t
    ELSE LET t1 == StageOne(items, i, sd, t)
         IN  IF t1.raised # NoError THEN t1 ELSE Stage(items, i + 1, sd, t1)

EmptyMap == [s \in {} |-> 0]
NewTransaction ==
    [staged |-> EmptyMap, variables |-> <<>>, steps |-> <<"Refitter">>, raised |-> NoError]

(***************************************************************************)
(* The engine and the refitter (TensorRT).                                 *)
(***************************************************************************)
NoEngine == [weights |-> EmptyMap, live |-> FALSE]
IsEngine(e) == e.live

\* refitter.get_missing(): the declared weights no set_weights call filled
GetMissing(eng, staged) == DOMAIN eng.weights \ DOMAIN staged

\* Absorb by an engine that adds what is staged to the weights it holds
Absorb_Accumulates(eng, staged) ==
    [eng EXCEPT !.weights =
        [s \in DOMAIN eng.weights |->
            IF s \in DOMAIN staged
            THEN [eng.weights[s] EXCEPT !.val = @ + staged[s].val]
            ELSE eng.weights[s]]]

\* the numbers the engine reads out of an array
Weights(buf) == [val |-> buf.val, dtype |-> buf.dtype]

\* refitter.refit_cuda_engine() returning True: the engine takes every staged
\* weight it declares (a weight it does not declare was refused by
\* set_weights), as the array holds it at that moment, and keeps the others
Absorb(eng, staged) ==
    [eng EXCEPT !.weights =
        [s \in DOMAIN eng.weights |->
            IF s \in DOMAIN staged THEN Weights(staged[s]) ELSE eng.weights[s]]]

\* builder.build_cuda_engine(trt_net): the network is compiled with the
\* weights its parameters have at that moment
BakedWeights(sd) ==
    LET t == Stage(TableOk, 1, sd, NewTransaction)
    IN  [weights |-> [s \in NetSlots |-> Weights(t.staged[s])], live |-> TRUE]

(***************************************************************************)
(* refit_engine(net): one refit transaction.  commitOk is the value that   *)
(* refitter.refit_cuda_engine() returns if it is called.                   *)
(***************************************************************************)
\* the transaction as it ended: the engine after it and as the Refitter found
\* it, what was staged and retained, what get_missing() reported, what
\* refit_cuda_engine() returned ("" when it was not called)
Refit(eng, eng0, t, cause, raised, missing, commit, steps) ==
    [engine |-> eng, engine0 |-> eng0, staged |-> t.staged,
     variables |-> t.variables, cause |-> cause, raised |-> raised,
     missing |-> missing, commit |-> commit, steps |-> t.steps \o steps]

\* the cause of an exception of the extraction loop
LoopCause(exc) ==
    IF exc.type = "KeyError" THEN "missing_parameter" ELSE "unsupported_kind"

\* refit_engine without the assertion on get_missing()
refit_engine_NoMissingCheck(table, eng, sd, commitOk) ==
    LET t == Stage(table, 1, sd, NewTransaction)
        missing == GetMissing(eng, t.staged)
    IN  IF t.raised # NoError
        THEN Refit(eng, eng, t, LoopCause(t.raised), t.raised, {}, "", <<>>)
        ELSE IF ~commitOk
        THEN Refit(eng, eng, t, "commit_rejected", BareAssert, missing, "False",
                   <<"get_missing", "refit_cuda_engine">>)
        ELSE Refit(Absorb(eng, t.staged), eng, t, "", NoError, missing, "True",
                   <<"get_missing", "refit_cuda_engine">>)

\* refit_engine with the result of refit_cuda_engine() not asserted
refit_engine_CommitUnchecked(table, eng, sd, commitOk) ==
    LET t == Stage(table, 1, sd, NewTransaction)
        missing == GetMissing(eng, t.staged)
    IN  IF t.raised # NoError
        THEN Refit(eng, eng, t, LoopCause(t.raised), t.raised, {}, "", <<>>)
        ELSE IF missing # {}
        THEN Refit(eng, eng, t, "incomplete_refit", MissingAssert, missing, "",
                   <<"get_missing">>)
        ELSE IF ~commitOk
        THEN Refit(eng, eng, t, "", NoError, missing, "False",
                   <<"get_missing", "refit_cuda_engine">>)
        ELSE Refit(Absorb(eng, t.staged), eng, t, "", NoError, missing, "True",
                   <<"get_missing", "refit_cuda_engine">>)

\* refit_engine with the commit made as the Refitter is left, also when the
\* loop raised
refit_engine_CommitsOnExit(table, eng, sd, commitOk) ==
    LET t == Stage(table, 1, sd, NewTransaction)
        missing == GetMissing(eng, t.staged)
    IN  IF t.raised # NoError
        THEN Refit(Absorb(eng, t.staged), eng, t, LoopCause(t.raised), t.raised,
                   {}, "True", <<"refit_cuda_engine">>)
        ELSE IF missing # {}
        THEN Refit(eng, eng, t, "incomplete_refit", MissingAssert, missing, "",
                   <<"get_missing">>)
        ELSE IF ~commitOk
        THEN Refit(eng, eng, t, "commit_rejected", BareAssert, missing, "False",
                   <<"get_missing", "refit_cuda_engine">>)
        ELSE Refit(Absorb(eng, t.staged), eng, t, "", NoError, missing, "True",
                   <<"get_missing", "refit_cuda_engine">>)

\* refit_engine from the end of its loop on; t is the transaction the loop
\* left
Finish(eng, t, commitOk) ==
    LET missing == GetMissing(eng, t.staged)
    IN  IF t.raised # NoError
        THEN Refit(eng, eng, t, LoopCause(t.raised), t.raised, {}, "", <<>>)
        ELSE IF missing # {}
        THEN Refit(eng, eng, t, "incomplete_refit", MissingAssert, missing, "",
                   <<"get_missing">>)
        ELSE IF ~commitOk
        THEN Refit(eng, eng, t, "commit_rejected", BareAssert, missing, "False",
                   <<"get_missing", "refit_cuda_engine">>)
        ELSE Refit(Absorb(eng, t.staged), eng, t, "", NoError, missing, "True",
                   <<"get_missing", "refit_cuda_engine">>)

refit_engine(table, eng, sd, commitOk) ==
    Finish(eng, Stage(table, 1, sd, NewTransaction), commitOk)

(***************************************************************************)
(* build_tensorrt(net, torch_inputs).  table is what the tracer returns,   *)
(* outcome says where the build stops.                                     *)
(***************************************************************************)
BuildOutcomes == {"ok", "trace_failed", "compile_failed", "shapes_failed"}

Build(m, raised) == [self |-> m, raised |-> raised]

\* the value None of a field
NoneValue == <<"None">>
\* self.output_shapes = None
NoShapes == [n \in {"None"} |-> <<>>]

\* "output{}".format(i)
OutputName(i) ==
    <<"output0", "output1", "output2", "output3", "output4", "output5">>[i + 1]

\* the names given to the outputs of the traced network, in order
NamesOf(outs) == [i \in 1..Len(outs) |-> OutputName(i - 1)]

\* zip(self.output_names, outputs): name -> v.shape[1:]
ShapesOf(names, outs) ==
    [n \in {names[i] : i \in 1..Len(names)} |->
        outs[CHOOSE i \in 1..Len(names) : names[i] = n]]

\* outs is what the network returns, as the list of the shapes of its
\* outputs without the batch dimension
build_tensorrt(self, sd, table, outcome, outs) ==
    IF outcome = "trace_failed"
    THEN \* torch2trt.GraphModule(...) raises
         Build(self, TracerError)
    ELSE IF outcome = "compile_failed"
    THEN \* build_cuda_engine returns None; None.create_execution_context()
         Build([self EXCEPT !.refit_weight_dict = table, !.engine = NoEngine,
                            !.output_names = NamesOf(outs)],
               NoneTypeError)
    ELSE LET m == [self EXCEPT !.refit_weight_dict = table,
                               !.engine = BakedWeights(sd),
                               !.ctx = "TorchInferenceContext",
                               !.output_names = NamesOf(outs)]
         IN  IF outcome = "shapes_failed"
             THEN \* the second graph pass, on the torch inputs, raises
                  Build(m, TracerError)
             ELSE Build([m EXCEPT !.output_shapes =
                                      ShapesOf(m.output_names, outs)],
                        NoError)

(***************************************************************************)
(* The results of a call: tensors as the output they carry and their       *)
(* shape.                                                                  *)
(***************************************************************************)
Tensor(data, shape) == [data |-> data, shape |-> shape]
\* an element of [None] * n
NoneTensor == Tensor("None", <<>>)

RECURSIVE Prod(_)
Prod(shape) == IF shape = <<>> THEN 1 ELSE Head(shape) * Prod(Tail(shape))

\* self.ctx.inference_async(...): the outputs of the engine by name, each a
\* flat buffer per sample; `order` is the order in which the mapping is
\* iterated, as positions in the engine's outputs
InferenceAsync(names, shapes, batch, order) ==
    [i \in 1..Len(order) |->
        [k |-> names[order[i]],
         v |-> Tensor(names[order[i]], <<batch, Prod(shapes[names[order[i]]])>>)]]

\* v.view(shape)
View(v, shape) == [v EXCEPT !.shape = shape]

\* list.index(k), counted from 1
IndexOf(names, k) ==
    CHOOSE i \in 1..Len(names) :
        names[i] = k /\ \A j \in 1..(i - 1) : names[j] # k

\* PlaceOne with the result stored at the position of the iteration
PlaceOne_InIterationOrder(outputs, i, k, v, names, shapes) ==
    [outputs EXCEPT ![i] = View(v, <<v.shape[1]>> \o shapes[k])]

\* the body of the loop over output_dict.items(), at its i-th item (k, v)
PlaceOne(outputs, i, k, v, names, shapes) ==
    [outputs EXCEPT ![IndexOf(names, k)] = View(v, <<v.shape[1]>> \o shapes[k])]

RECURSIVE Place(_, _, _, _, _)
Place(output_dict, i, outputs, names, shapes) ==
    IF i > Len(output_dict) THEN outputs
    ELSE Place(output_dict, i + 1,
               PlaceOne(outputs, i, output_dict[i].k, output_dict[i].v,
                        names, shapes),
               names, shapes)

\* what a handler returns: nothing (it raised), the result of forward, one
\* tensor or a tuple of tensors
Returns(kind, items) == [kind |-> kind, items |-> items]
NoResult == Returns("none", <<>>)

\* the end of the inference branch, from the mapping output_dict on
Outputs(output_dict, names, shapes) ==
    LET outputs == Place(output_dict, 1,
                         [i \in 1..Len(output_dict) |-> NoneTensor],
                         names, shapes)
    IN  IF Len(outputs) = 1 THEN Returns("tensor", <<outputs[1]>>)
        ELSE Returns("tuple", outputs)

(***************************************************************************)
(* __call__.  self is the module's fields, trn is self.training, and       *)
(* in is what the call meets: is_cuda (every input is on the GPU), batch   *)
(* (the first dimension of the inputs), order (the iteration order of the  *)
(* engine's result), outs (what the traced network returns) and table,     *)
(* outcome, commitOk as above.  The result is the module's fields after    *)
(* the call and the record of the call.                                    *)
(***************************************************************************)
Fields(b, nr, tbl, eng, c, names, shapes) ==
    [built |-> b, need_refit |-> nr, refit_weight_dict |-> tbl,
     engine |-> eng, ctx |-> c, output_names |-> names,
     output_shapes |-> shapes]

\* a refit transaction that did not run
NoRefit ==
    [engine |-> NoEngine, engine0 |-> NoEngine, staged |-> EmptyMap,
     variables |-> <<>>, cause |-> "", raised |-> NoError, missing |-> {},
     commit |-> "", steps |-> <<>>]

Before(self) == [built |-> self.built, need_refit |-> self.need_refit]

\* the record of a handler: the calls it made in order, the exception that
\* left it and its cause, the refit transaction r it ran (the engine the
\* Refitter was opened on, the staged slots, the retained buffers, the
\* missing slots, the commit's result), self.need_refit as it was when the
\* execution context was invoked, built / need_refit as the handler found
\* them, and (filled in by Call) whether build_tensorrt had been entered
\* by an earlier call, what the handler returned (filled in by the branch
\* that returns) and the inputs it was called on (filled in by Call)
Record(op, self0, steps, cause, raised, r, flag) ==
    [op |-> op, steps |-> steps, cause |-> cause, raised |-> raised,
     engine0 |-> r.engine0, staged |-> DOMAIN r.staged,
     variables |-> r.variables, missing |-> r.missing, commit |-> r.commit,
     flagAtInfer |-> flag, before |-> Before(self0), entered |-> FALSE,
     returned |-> NoResult, is_cuda |-> TRUE, batch |-> 0, order |-> <<>>,
     outs |-> <<>>]

Returning(rec, value) == [rec EXCEPT !.returned = value]

\* the engine is run and its outputs are put in order
Invoke(m, in) ==
    Outputs(InferenceAsync(m.output_names, m.output_shapes, in.batch, in.order),
            m.output_names, m.output_shapes)

\* whether the handler made the call `step`, how often, and where first
Ran(rec, step) == \E i \in DOMAIN rec.steps : rec.steps[i] = step
Count(rec, step) == Cardinality({i \in DOMAIN rec.steps : rec.steps[i] = step})
Pos(rec, step) ==
    IF Ran(rec, step)
    THEN CHOOSE i \in DOMAIN rec.steps :
            /\ rec.steps[i] = step
            /\ \A j \in 1..(i - 1) : rec.steps[j] # step
    ELSE 0

Outcome(m, rec) == [self |-> m, rec |-> rec]

\* TrainingBranch without `self.need_refit = True`
TrainingBranch_FlagUntouched(self0, m, steps) ==
    Outcome(m,
            Returning(Record("call", self0, steps \o <<"forward">>, "", NoError,
                             NoRefit, FALSE),
                      Returns("forward", <<>>)))

\* InferenceBranch with the placement assertion as its first statement
InferenceBranch_PlacementFirst(self0, m, sd, in, steps) ==
    LET r == IF m.need_refit
             THEN refit_engine(m.refit_weight_dict, m.engine, sd, in.commitOk)
             ELSE NoRefit
        steps1 == steps \o <<"is_cuda">>
        steps2 == IF m.need_refit
                  THEN steps1 \o <<"refit_engine">> \o r.steps ELSE steps1
        m2 == IF m.need_refit
              THEN [m EXCEPT !.engine = r.engine, !.need_refit = FALSE]
              ELSE m
    IN  IF ~in.is_cuda
        THEN Outcome(m, Record("call", self0, steps1, "placement", BareAssert,
                               NoRefit, FALSE))
        ELSE IF r.raised # NoError
        THEN Outcome([m EXCEPT !.engine = r.engine],
                     Record("call", self0, steps2, r.cause, r.raised, r, FALSE))
        ELSE Outcome(m2, Returning(
                Record("call", self0,
                       steps2 \o <<"synchronize", "inference_async">>,
                       "", NoError, r, m2.need_refit),
                Invoke(m2, in)))

\* the else branch: self.need_refit = True; super().__call__(...)
TrainingBranch(self0, m, steps) ==
    Outcome([m EXCEPT !.need_refit = TRUE],
            Returning(Record("call", self0, steps \o <<"forward">>, "", NoError,
                             NoRefit, FALSE),
                      Returns("forward", <<>>)))

\* InferenceBranch with `self.need_refit = False` left out after the refit
InferenceBranch_FlagKept(self0, m, sd, in, steps) ==
    LET r == IF m.need_refit
             THEN refit_engine(m.refit_weight_dict, m.engine, sd, in.commitOk)
             ELSE NoRefit
        steps2 == IF m.need_refit
                  THEN steps \o <<"refit_engine">> \o r.steps ELSE steps
        m2 == IF m.need_refit THEN [m EXCEPT !.engine = r.engine] ELSE m
    IN  IF r.raised # NoError
        THEN Outcome([m EXCEPT !.engine = r.engine],
                     Record("call", self0, steps2, r.cause, r.raised, r, FALSE))
        ELSE IF ~in.is_cuda
        THEN Outcome(m2, Record("call", self0, steps2 \o <<"is_cuda">>,
                                "placement", BareAssert, r, FALSE))
        ELSE Outcome(m2, Returning(
                Record("call", self0,
                       steps2 \o <<"is_cuda", "synchronize", "inference_async">>,
                       "", NoError, r, m2.need_refit),
                Invoke(m2, in)))

\* InferenceBranch with `self.need_refit = False` moved before the refit
InferenceBranch_ClearsFirst(self0, m, sd, in, steps) ==
    LET r == IF m.need_refit
             THEN refit_engine(m.refit_weight_dict, m.engine, sd, in.commitOk)
             ELSE NoRefit
        steps2 == IF m.need_refit
                  THEN steps \o <<"refit_engine">> \o r.steps ELSE steps
        m2 == [m EXCEPT !.engine = IF m.need_refit THEN r.engine ELSE m.engine,
                        !.need_refit = FALSE]
    IN  IF r.raised # NoError
        THEN Outcome(m2, Record("call", self0, steps2, r.cause, r.raised, r, FALSE))
        ELSE IF ~in.is_cuda
        THEN Outcome(m2, Record("call", self0, steps2 \o <<"is_cuda">>,
                                "placement", BareAssert, r, FALSE))
        ELSE Outcome(m2, Returning(
                Record("call", self0,
                       steps2 \o <<"is_cuda", "synchronize", "inference_async">>,
                       "", NoError, r, m2.need_refit),
                Invoke(m2, in)))

\* InferenceBranch with torch.cuda.synchronize() after the invocation
InferenceBranch_SyncAfter(self0, m, sd, in, steps) ==
    LET r == IF m.need_refit
             THEN refit_engine(m.refit_weight_dict, m.engine, sd, in.commitOk)
             ELSE NoRefit
        steps2 == IF m.need_refit
                  THEN steps \o <<"refit_engine">> \o r.steps ELSE steps
        m2 == IF m.need_refit
              THEN [m EXCEPT !.engine = r.engine, !.need_refit = FALSE]
              ELSE m
    IN  IF r.raised # NoError
        THEN Outcome([m EXCEPT !.engine = r.engine],
                     Record("call", self0, steps2, r.cause, r.raised, r, FALSE))
        ELSE IF ~in.is_cuda
        THEN Outcome(m2, Record("call", self0, steps2 \o <<"is_cuda">>,
                                "placement", BareAssert, r, FALSE))
        ELSE Outcome(m2, Returning(
                Record("call", self0,
                       steps2 \o <<"is_cuda", "inference_async", "synchronize">>,
                       "", NoError, r, m2.need_refit),
                Invoke(m2, in)))

\* InferenceBranch without `assert all([a.is_cuda for a in args])`
InferenceBranch_NoPlacementCheck(self0, m, sd, in, steps) ==
    LET r == IF m.need_refit
             THEN refit_engine(m.refit_weight_dict, m.engine, sd, in.commitOk)
             ELSE NoRefit
        steps2 == IF m.need_refit
                  THEN steps \o <<"refit_engine">> \o r.steps ELSE steps
        m2 == IF m.need_refit
              THEN [m EXCEPT !.engine = r.engine, !.need_refit = FALSE]
              ELSE m
    IN  IF r.raised # NoError
        THEN Outcome([m EXCEPT !.engine = r.engine],
                     Record("call", self0, steps2, r.cause, r.raised, r, FALSE))
        ELSE Outcome(m2, Returning(
                Record("call", self0,
                       steps2 \o <<"synchronize", "inference_async">>,
                       "", NoError, r, m2.need_refit),
                Invoke(m2, in)))

\* the branch `if not self.training:`
InferenceBranch(self0, m, sd, in, steps) ==
    LET r == IF m.need_refit
             THEN refit_engine(m.refit_weight_dict, m.engine, sd, in.commitOk)
             ELSE NoRefit
        steps2 == IF m.need_refit
                  THEN steps \o <<"refit_engine">> \o r.steps ELSE steps
        m2 == IF m.need_refit
              THEN [m EXCEPT !.engine = r.engine, !.need_refit = FALSE]
              ELSE m
    IN  IF r.raised # NoError
        THEN \* the exception leaves __call__; the engine is as the refitter left it
             Outcome([m EXCEPT !.engine = r.engine],
                     Record("call", self0, steps2, r.cause, r.raised, r, FALSE))
        ELSE IF ~in.is_cuda
        THEN Outcome(m2, Record("call", self0, steps2 \o <<"is_cuda">>,
                                "placement", BareAssert, r, FALSE))
        ELSE Outcome(m2, Returning(
                Record("call", self0,
                       steps2 \o <<"is_cuda", "synchronize", "inference_async">>,
                       "", NoError, r, m2.need_refit),
                Invoke(m2, in)))

\* CallModule with the build guard reduced to `if not self.built:`
CallModule_BuildsInTraining(self, trn, sd, in) ==
    LET needBuild == ~self.built
        b == IF needBuild
             THEN build_tensorrt(self, sd, in.table, in.outcome, in.outs)
             ELSE Build(self, NoError)
        steps == IF needBuild THEN <<"build_tensorrt">> ELSE <<>>
        m == IF needBuild THEN [b.self EXCEPT !.built = TRUE] ELSE self
    IN  IF b.raised # NoError
        THEN Outcome(b.self, Record("call", self, steps, "build_failed",
                                    b.raised, NoRefit, FALSE))
        ELSE IF ~trn THEN InferenceBranch(self, m, sd, in, steps)
        ELSE TrainingBranch(self, m, steps)

\* CallModule without `self.built = True`
CallModule_BuiltNotSet(self, trn, sd, in) ==
    LET needBuild == ~trn /\ ~self.built
        b == IF needBuild
             THEN build_tensorrt(self, sd, in.table, in.outcome, in.outs)
             ELSE Build(self, NoError)
        steps == IF needBuild THEN <<"build_tensorrt">> ELSE <<>>
        m == b.self
    IN  IF b.raised # NoError
        THEN Outcome(b.self, Record("call", self, steps, "build_failed",
                                    b.raised, NoRefit, FALSE))
        ELSE IF ~trn THEN InferenceBranch(self, m, sd, in, steps)
        ELSE TrainingBranch(self, m, steps)

CallModule(self, trn, sd, in) ==
    LET needBuild == ~trn /\ ~self.built
        b == IF needBuild
             THEN build_tensorrt(self, sd, in.table, in.outcome, in.outs)
             ELSE Build(self, NoError)
        steps == IF needBuild THEN <<"build_tensorrt">> ELSE <<>>
        m == IF needBuild THEN [b.self EXCEPT !.built = TRUE] ELSE self
    IN  IF b.raised # NoError
        THEN Outcome(b.self, Record("call", self, steps, "build_failed",
                                    b.raised, NoRefit, FALSE))
        ELSE IF ~trn THEN InferenceBranch(self, m, sd, in, steps)
        ELSE TrainingBranch(self, m, steps)

(***************************************************************************)
(* The state machine.                                                      *)
(***************************************************************************)
Self == Fields(built, need_refit, refit_weight_dict, engine, ctx,
               output_names, output_shapes)

\* the fields __init__ sets
NewModule == Fields(FALSE, TRUE, <<>>, NoEngine, "None", NoneValue, NoShapes)

\* the record of a handler that is not a call of the module
Idle == Record("none", NewModule, <<>>, "", NoError, NoRefit, FALSE)

\* no refit_engine call is in progress
NoTx == [phase |-> "idle", i |-> 0, t |-> NewTransaction, staged0 |-> EmptyMap,
         out |-> NoRefit]

\* the parameters of a freshly made network
InitStore ==
    [n \in StoreNames |-> IF n \in {"bn.bias", "fc.bias"} THEN 0 ELSE Q]

Init ==
    /\ training = TRUE
    /\ built = NewModule.built
    /\ need_refit = NewModule.need_refit
    /\ refit_weight_dict = NewModule.refit_weight_dict
    /\ engine = NewModule.engine
    /\ ctx = NewModule.ctx
    /\ output_names = NewModule.output_names
    /\ output_shapes = NewModule.output_shapes
    /\ state_dict = InitStore
    /\ on_host = {}
    /\ buildEntered = FALSE
    /\ call = Idle
    /\ tx = NoTx

\* the outputs of the network of this model, without the batch dimension
NetOutputs == <<<<3>>, <<5, 5>>>>

\* what a call can meet: the tracer and the builder are consulted only by a
\* call that builds, the refitter's commit only by a call that refits, the
\* placement of the inputs by every call in inference mode.  The network
\* and the batch are fixed, and the engine's result is iterated in the
\* order of its outputs.
Inputs(self, trn) ==
    LET needBuild == ~trn /\ ~self.built
        Meets(outcomes, tables, cuda, commit) ==
            [is_cuda : cuda, table : tables, outcome : outcomes, commitOk : commit,
             outs : {NetOutputs}, batch : {1},
             order : {[i \in 1..Len(NetOutputs) |-> i]}]
        infer == Meets({"ok"},
                       IF needBuild THEN Tables ELSE {self.refit_weight_dict},
                       BOOLEAN,
                       IF self.need_refit THEN BOOLEAN ELSE {TRUE})
    IN  IF trn THEN Meets({"ok"}, {self.refit_weight_dict}, {TRUE}, {TRUE})
        ELSE IF ~needBuild THEN infer
        ELSE infer
             \cup Meets({"trace_failed"}, {TableOk}, BOOLEAN, {TRUE})
             \cup Meets(BuildOutcomes \ {"ok", "trace_failed"}, Tables, BOOLEAN, {TRUE})

\* a call of the module on inputs drawn from `inputs`
CallOn(inputs) ==
    \E in \in inputs :
        \E o \in {CallModule(Self, training, state_dict, in)} :
            /\ built' = o.self.built
            /\ need_refit' = o.self.need_refit
            /\ refit_weight_dict' = o.self.refit_weight_dict
            /\ engine' = o.self.engine
            /\ ctx' = o.self.ctx
            /\ output_names' = o.self.output_names
            /\ output_shapes' = o.self.output_shapes
            /\ call' = [o.rec EXCEPT !.entered = buildEntered,
                                     !.is_cuda = in.is_cuda,
                                     !.batch = in.batch,
                                     !.order = in.order,
                                     !.outs = in.outs]
            /\ buildEntered' = (buildEntered \/ Ran(o.rec, "build_tensorrt"))
            /\ UNCHANGED <<training, state_dict, on_host, tx>>

\* a call of the module on some inputs
Call == CallOn(Inputs(Self, training))

\* module.train(): nn.Module.train sets self.training and nothing else
Train ==
    /\ training' = TRUE
    /\ call' = Idle
    /\ UNCHANGED <<built, need_refit, refit_weight_dict, engine, ctx,
                   output_names, output_shapes, state_dict, on_host,
                   buildEntered, tx>>

\* module.eval()
Eval ==
    /\ training' = FALSE
    /\ call' = Idle
    /\ UNCHANGED <<built, need_refit, refit_weight_dict, engine, ctx,
                   output_names, output_shapes, state_dict, on_host,
                   buildEntered, tx>>

\* a parameter of the network is rewritten (optimizer step, running
\* statistics, load_state_dict): the store is not owned by the module
Update ==
    \E name \in Trained, v \in Vals :
        /\ state_dict[name] # v
        /\ state_dict' = [state_dict EXCEPT ![name] = v]
        /\ call' = Idle
        /\ UNCHANGED <<training, built, need_refit, refit_weight_dict,
                       engine, ctx, output_names, output_shapes, on_host,
                       buildEntered, tx>>

Next == Call \/ Train \/ Eval \/ Update

Spec == Init /\ [][Next]_vars

(***************************************************************************)
(* Calls on networks with any outputs, on any batch, with the engine's     *)
(* result iterated in any order.                                           *)
(***************************************************************************)
\* the shapes of an output, without the batch dimension
Shapes == {<<3>>, <<5, 5>>}

\* what a network can return: 1..MaxOutputs tensors
OutputLists == UNION {[1..n -> Shapes] : n \in 1..MaxOutputs}

\* the orders in which a mapping of n items can be iterated
Orders(n) == {p \in [1..n -> 1..n] : \A i, j \in 1..n : p[i] = p[j] => i = j}

\* a tracer, a builder and a refitter that succeed, inputs on the GPU
OutInputs(self, trn) ==
    LET Meets(outs, n) ==
            [is_cuda : {TRUE}, table : {TableOk}, outcome : {"ok"},
             commitOk : {TRUE}, outs : {outs}, batch : 1..MaxBatch,
             order : Orders(n)]
    IN  IF trn THEN Inputs(self, trn)
        ELSE IF ~self.built THEN UNION {Meets(o, Len(o)) : o \in OutputLists}
        ELSE Meets(NetOutputs, Len(self.output_names))

OutCall == CallOn(OutInputs(Self, training))

OutNext == OutCall \/ Eval

OutSpec == Init /\ [][OutNext]_vars

(***************************************************************************)
(* Calls on a network with any batch-norm parameters, which nothing        *)
(* rewrites, with a tracer, a builder and a refitter that succeed.         *)
(***************************************************************************)
BNNames == {"bn.weight", "bn.bias", "bn.running_mean", "bn.running_var"}

FoldInit ==
    /\ training = TRUE
    /\ built = NewModule.built
    /\ need_refit = NewModule.need_refit
    /\ refit_weight_dict = NewModule.refit_weight_dict
    /\ engine = NewModule.engine
    /\ ctx = NewModule.ctx
    /\ output_names = NewModule.output_names
    /\ output_shapes = NewModule.output_shapes
    /\ state_dict \in {sd \in [StoreNames -> Vals] :
                         \A n \in StoreNames \ BNNames : sd[n] = InitStore[n]}
    /\ on_host = {}
    /\ buildEntered = FALSE
    /\ call = Idle
    /\ tx = NoTx

Succeeding(inputs) ==
    {in \in inputs : in.outcome = "ok" /\ in.table = TableOk /\ in.commitOk}

FoldCall == CallOn(Succeeding(Inputs(Self, training)))

FoldNext == FoldCall \/ Train \/ Eval

FoldSpec == FoldInit /\ [][FoldNext]_vars

(***************************************************************************)
(* refit_engine(net) called on a built module, one loop iteration at a     *)
(* time, while another thread (a training loop, a statistics update)       *)
(* writes the parameters of the network.                                   *)
(***************************************************************************)
\* a built module in inference mode whose network was moved to the host
\* (net.cpu()) or left on the GPU
RefitInit ==
    /\ on_host \in {{}, StoreNames}
    /\ training = FALSE
    /\ built = TRUE
    /\ need_refit = TRUE
    /\ refit_weight_dict \in Tables
    /\ engine = BakedWeights(InitStore)
    /\ ctx = "TorchInferenceContext"
    /\ output_names = NamesOf(NetOutputs)
    /\ output_shapes = ShapesOf(NamesOf(NetOutputs), NetOutputs)
    /\ state_dict = InitStore
    /\ buildEntered = TRUE
    /\ call = Idle
    /\ tx = NoTx

\* refit_engine is entered: variables = [], the Refitter is opened
RefitBegin ==
    /\ tx.phase = "idle"
    /\ tx' = [NoTx EXCEPT !.phase = "loop", !.i = 1]
    /\ UNCHANGED <<training, built, need_refit, refit_weight_dict, engine, ctx,
                   output_names, output_shapes, state_dict, on_host,
                   buildEntered, call>>

\* one iteration of the loop; staged0 keeps the numbers every array had
\* when it was handed to set_weights
RefitStep ==
    /\ tx.phase = "loop"
    /\ \E t1 \in {StageOne(refit_weight_dict, tx.i, state_dict, tx.t)} :
          tx' = [tx EXCEPT
                   !.t = t1,
                   !.i = tx.i + 1,
                   !.staged0 = [s \in DOMAIN t1.staged |->
                                   IF s \in DOMAIN tx.t.staged
                                   THEN tx.staged0[s]
                                   ELSE Weights(t1.staged[s])],
                   !.phase = IF t1.raised # NoError
                                \/ tx.i = Len(refit_weight_dict)
                             THEN "commit" ELSE "loop"]
    /\ UNCHANGED <<training, built, need_refit, refit_weight_dict, engine, ctx,
                   output_names, output_shapes, state_dict, on_host,
                   buildEntered, call>>

\* the loop is left: by its exception, or through get_missing() and
\* refit_cuda_engine()
RefitFinish ==
    /\ tx.phase = "commit"
    /\ \E commitOk \in BOOLEAN :
        \E r \in {Finish(engine, tx.t, commitOk)} :
            /\ engine' = r.engine
            /\ tx' = [tx EXCEPT !.phase = "done", !.out = r]
    /\ UNCHANGED <<training, built, need_refit, refit_weight_dict, ctx,
                   output_names, output_shapes, state_dict, on_host,
                   buildEntered, call>>

\* refit_engine returns or its exception leaves it: its locals are dropped
RefitReturn ==
    /\ tx.phase = "done"
    /\ tx' = NoTx
    /\ UNCHANGED <<training, built, need_refit, refit_weight_dict, engine, ctx,
                   output_names, output_shapes, state_dict, on_host,
                   buildEntered, call>>

\* an array that shares the memory of parameter `name` after v was written
Written(buf, name, v) == IF buf.base = name THEN [buf EXCEPT !.val = v] ELSE buf

\* the other thread writes a parameter in place; the arrays that share the
\* parameter's memory hold the new numbers
Write ==
    \E name \in Trained, v \in Vals :
        /\ state_dict[name] # v
        /\ state_dict' = [state_dict EXCEPT ![name] = v]
        /\ LET Arrays(f) == [x \in DOMAIN f |-> Written(f[x], name, v)]
           IN  tx' = [tx EXCEPT !.t.staged = Arrays(@),
                                !.t.variables = Arrays(@),
                                !.out.staged = Arrays(@),
                                !.out.variables = Arrays(@)]
        /\ UNCHANGED <<training, built, need_refit, refit_weight_dict, engine,
                       ctx, output_names, output_shapes, on_host, buildEntered,
                       call>>

RefitNext == RefitBegin \/ RefitStep \/ RefitFinish \/ RefitReturn \/ Write

RefitSpec == RefitInit /\ [][RefitNext]_vars

(***************************************************************************)
(* Properties.                                                             *)
(***************************************************************************)
TypeOK ==
    /\ training \in BOOLEAN /\ built \in BOOLEAN /\ need_refit \in BOOLEAN
    /\ buildEntered \in BOOLEAN
    /\ refit_weight_dict \in Tables \cup {<<>>}
    /\ ctx \in {"None", "TorchInferenceContext"}
    /\ state_dict \in [StoreNames -> Vals \cup {0, Q}]
    /\ DOMAIN engine.weights \in {{}, NetSlots}
    /\ output_names \in {NoneValue} \cup {NamesOf(o) : o \in OutputLists}
    /\ output_shapes = NoShapes
          \/ DOMAIN output_shapes = {output_names[i] : i \in DOMAIN output_names}
    /\ on_host \subseteq StoreNames
    /\ call.op \in {"none", "call"}
    /\ call.returned.kind \in {"none", "forward", "tensor", "tuple"}
    /\ tx.phase \in {"idle", "loop", "commit", "done"}

\* the last handler invoked the execution context
Invoked == Ran(call, "inference_async")

\* C1: the execution context is invoked only while need_refit is false: the
\* flag is false at the invocation and after the call, and a call that found
\* it true has committed a refit transaction before invoking the context.
C1_InferOnlyWhenClean ==
    Invoked =>
        /\ call.flagAtInfer = FALSE
        /\ need_refit = FALSE
        /\ call.before.need_refit =>
              /\ call.commit = "True"
              /\ Pos(call, "refit_cuda_engine") < Pos(call, "inference_async")

C1_Witness == Invoked /\ call.before.need_refit /\ call.before.built

\* the weights the network's parameters give every slot of the engine
Current == BakedWeights(state_dict).weights

\* C2: at every invocation of the execution context the engine's weights are
\* the ones derived from the parameter store as it is at that moment.
C2_EngineInSync == Invoked => engine.weights = Current

\* C3: switching the module from training mode back to inference mode leaves
\* need_refit true, called in between or not, and an inference call that
\* finds need_refit true runs exactly one refit transaction before the
\* execution context is invoked.
C3_RoundTripMarksDirty ==
    [][/\ (training /\ ~training') => need_refit'
       /\ (need_refit /\ Ran(call', "inference_async")) =>
             /\ Count(call', "refit_engine") = 1
             /\ Pos(call', "refit_engine") < Pos(call', "inference_async")]_vars

RefitCauses == {"missing_parameter", "unsupported_kind", "incomplete_refit",
                "commit_rejected"}

\* C4: need_refit goes from true to false only in a call whose refit
\* transaction found no missing slot and whose commit returned success, and
\* after every call in which refit_engine raised need_refit is still true.
C4_ClearedOnlyByCommit ==
    [][/\ (need_refit /\ ~need_refit') =>
             /\ call'.op = "call"
             /\ call'.missing = {}
             /\ call'.commit = "True"
             /\ Pos(call', "get_missing") < Pos(call', "refit_cuda_engine")
       /\ (call'.cause \in RefitCauses) => need_refit']_vars

C4_Witness == call.before.need_refit /\ ~need_refit /\ call.commit = "True"

\* C5 as stated: build_tensorrt is run at most once over the calls of one
\* module; it is run by the first call made in inference mode, never by a
\* call in training mode, and never once built is true.
C5_BuildRunsAtMostOnce ==
    [][call'.op = "call" =>
          /\ Ran(call', "build_tensorrt") => ~buildEntered
          /\ (~training /\ ~buildEntered) => Ran(call', "build_tensorrt")
          /\ training => ~Ran(call', "build_tensorrt")
          /\ built => ~Ran(call', "build_tensorrt")]_vars

\* C5 as amended: build_tensorrt completes at most once (built goes from
\* false to true only in a call whose build succeeded, and never back); it
\* is run by exactly the calls made in inference mode while built is false
\* (the first such call, and again every such call after a failed build),
\* at most once per call, never by a call in training mode and never once
\* built is true.
C5_BuildCompletesAtMostOnce ==
    [][/\ built => built'
       /\ (~built /\ built') =>
             Ran(call', "build_tensorrt") /\ call'.cause # "build_failed"
       /\ call'.op = "call" =>
             /\ Ran(call', "build_tensorrt") <=> (~training /\ ~built)
             /\ Count(call', "build_tensorrt") <= 1
             /\ (~training /\ ~buildEntered) => Pos(call', "build_tensorrt") = 1
             /\ call'.cause = "build_failed" => ~built']_vars

\* a call after a failed build has run build_tensorrt again and completed it
C5_Witness ==
    /\ call.entered /\ ~call.before.built
    /\ Ran(call, "build_tensorrt") /\ built

\* C6: when get_missing() reports unfilled slots after the loop, the commit
\* is not called, the call raises, the engine keeps the weights it had when
\* the Refitter was opened, and the execution context is not invoked.
C6_IncompleteRefitAborts ==
    call.missing # {} =>
        /\ Ran(call, "get_missing")
        /\ ~Ran(call, "refit_cuda_engine") /\ call.commit = ""
        /\ call.raised # NoError
        /\ IsEngine(call.engine0) /\ engine = call.engine0
        /\ ~Invoked

C6_Witness == call.missing # {} /\ call.before.built /\ call.staged # {}

\* C7: when the transaction stages fewer slots than the engine declares, the
\* error raised is an IncompleteRefitError that lists exactly the unfilled
\* slots.
C7_ErrorListsMissing ==
    (Ran(call, "get_missing") /\ call.staged # NetSlots) =>
        /\ call.raised.type = "IncompleteRefitError"
        /\ call.raised.args = NetSlots \ call.staged

\* C8: when the commit returns failure the call raises before the context
\* is invoked, the engine keeps the weights it had, need_refit and built
\* stay true; and a built module with need_refit true stays so until a call
\* commits, its calls never build, and none invokes the context without
\* having committed first.
C8_CommitFailure ==
    [][/\ call'.commit = "False" =>
             /\ call'.raised = BareAssert
             /\ ~Ran(call', "synchronize") /\ ~Ran(call', "inference_async")
             /\ engine' = call'.engine0 /\ IsEngine(engine')
             /\ need_refit' /\ built'
       /\ (built /\ need_refit) =>
             /\ ~Ran(call', "build_tensorrt")
             /\ call'.commit # "True" => (built' /\ need_refit' /\ ~Ran(call', "inference_async"))
             /\ Ran(call', "inference_async") =>
                   Pos(call', "refit_cuda_engine") < Pos(call', "inference_async")]_vars

C8_Witness == call.commit = "False" /\ call.before.built

\* C9: when the loop raises part-way (a parameter absent from state_dict, an
\* entry of unknown kind) the commit is never called and the engine keeps
\* the weights it had, whatever was registered before; and whenever a
\* transaction ends, the engine's weights are either all as before or all
\* staged by that transaction and committed.
C9_AllOrNothing ==
    /\ call.cause \in {"missing_parameter", "unsupported_kind"} =>
          /\ ~Ran(call, "refit_cuda_engine") /\ call.commit = ""
          /\ engine = call.engine0
          /\ ~Invoked
    /\ Ran(call, "refit_engine") =>
          \/ engine = call.engine0
          \/ /\ call.commit = "True"
             /\ DOMAIN engine.weights \subseteq call.staged
             /\ \A s \in DOMAIN engine.weights : engine.weights[s] = Current[s]
    /\ Invoked => \E sd \in [Trained -> Vals] :
                     engine.weights =
                        BakedWeights([n \in StoreNames |->
                            IF n \in Trained THEN sd[n] ELSE state_dict[n]]).weights

\* entries before the failing one were registered with the refitter
C9_Witness ==
    /\ call.cause \in {"missing_parameter", "unsupported_kind"}
    /\ call.staged # {} /\ call.before.built

Causes == RefitCauses \cup {"build_failed", "placement"}

\* C10: failing calls with different causes raise different errors, and a
\* failing call ran build_tensorrt and refit_engine at most once each.
C10_DistinctErrors ==
    [][/\ (call.cause # "" /\ call'.cause # "" /\ call.cause # call'.cause) =>
             call.raised # call'.raised
       /\ call'.cause # "" =>
             /\ call'.cause \in Causes /\ call'.raised # NoError
             /\ Count(call', "build_tensorrt") <= 1
             /\ Count(call', "refit_engine") <= 1]_vars

\* C11: when refit_engine reaches the commit (get_missing and
\* refit_cuda_engine) and until the commit has returned, every array that
\* was handed to set_weights is an element of the list `variables`, and the
\* commit leaves the arrays and the list as it found them.
C11_StagedArraysRetained ==
    /\ tx.phase \in {"commit", "done"} =>
          \A s \in DOMAIN tx.t.staged :
              \E i \in DOMAIN tx.t.variables : tx.t.variables[i] = tx.t.staged[s]
    /\ tx.phase = "done" =>
          /\ tx.out.staged = tx.t.staged
          /\ tx.out.variables = tx.t.variables

\* the commit is reached with all five weights of the network staged
C11_Witness ==
    /\ tx.phase = "done"
    /\ tx.out.commit = "True"
    /\ DOMAIN tx.t.staged = NetSlots
    /\ Len(tx.t.variables) = Cardinality(NetSlots)

\* C12: the value a commit writes into a slot is the value the array had
\* when it was handed to set_weights, whatever was written to the
\* parameters in between.
C12_CommitsStagedValue ==
    (tx.phase = "done" /\ tx.out.commit = "True") =>
        \A s \in DOMAIN tx.staged0 \cap DOMAIN engine.weights :
            engine.weights[s] = tx.staged0[s]


\* C13: an inference call on a network with n outputs returns, whatever
\* the order in which the engine's result is iterated, the one tensor when
\* n = 1 and otherwise an n-tuple whose position i holds the result named
\* output{i}; every tensor has the shape (batch, *shape), shape being the
\* one the build recorded for that output, i.e. the shape of the i-th
\* output of the network without its batch dimension.
Reshaped(i) ==
    Tensor(OutputName(i), <<call.batch>> \o output_shapes[OutputName(i)])

C13_OutputsByName ==
    /\ (Ran(call, "build_tensorrt") /\ call.raised = NoError) =>
          /\ Len(output_names) = Len(call.outs)
          /\ \A i \in 1..Len(call.outs) :
                /\ output_names[i] = OutputName(i - 1)
                /\ output_shapes[OutputName(i - 1)] = call.outs[i]
    /\ Invoked =>
          LET n == Len(output_names)
          IN  IF n = 1
              THEN call.returned = Returns("tensor", <<Reshaped(0)>>)
              ELSE /\ call.returned.kind = "tuple"
                   /\ Len(call.returned.items) = n
                   /\ \A i \in 1..n : call.returned.items[i] = Reshaped(i - 1)

\* outputs of shapes (3,) and (5, 5), a batch of 4, the result iterated
\* last output first
C13_Witness ==
    /\ Invoked
    /\ call.batch = 4
    /\ call.order = <<2, 1>>
    /\ call.returned = Returns("tuple", <<Tensor("output0", <<4, 3>>),
                                          Tensor("output1", <<4, 5, 5>>)>>)


\* a call made in inference mode
InferenceCall == call.op = "call" /\ ~training

\* C14 as stated: an inference-mode call with an input that is not on the
\* GPU fails with the placement error and does not invoke the execution
\* context; with all inputs on the GPU the placement check does not fail.
C14_OffDeviceGivesPlacementError ==
    InferenceCall =>
        /\ ~call.is_cuda => (call.cause = "placement" /\ ~Invoked)
        /\ call.is_cuda => call.cause # "placement"

\* C14: an inference-mode call with an input that is not on the GPU fails
\* and does not invoke the execution context: with the error of the build
\* or of the refit when one of them raises in that call, and otherwise, the
\* placement check being reached, with the AssertionError of that check;
\* with all inputs on the GPU the placement check does not fail.
C14_OffDeviceCallFails ==
    InferenceCall =>
        /\ ~call.is_cuda =>
              /\ call.raised # NoError
              /\ ~Invoked
              /\ IF Ran(call, "is_cuda")
                 THEN call.cause = "placement" /\ call.raised = BareAssert
                 ELSE call.cause \in {"build_failed"} \cup RefitCauses
        /\ call.is_cuda => call.cause # "placement"
        /\ Ran(call, "is_cuda") <=>
              call.cause \notin {"build_failed"} \cup RefitCauses

\* an inference-mode call on an input that is not on the GPU reaches the
\* placement check and fails there
C14_Witness ==
    /\ InferenceCall
    /\ ~call.is_cuda
    /\ call.cause = "placement"
    /\ ~Ran(call, "synchronize")


ArrayOf(slot) ==
    call.variables[CHOOSE i \in DOMAIN call.variables : call.variables[i].id = slot]

Abs(n) == IF n >= 0 THEN n ELSE -n

\* the inputs of the normalization on which the fold is compared
Xs == Vals \cup {-v : v \in Vals}

\* C16: for a batch-norm entry with weight g, bias b, running mean mu and
\* running variance s2, the array registered under SCALE is g / sqrt(s2 + eps)
\* and the array registered under SHIFT is -mu * scale + b, so that
\* scale * x + shift is g * (x - mu) / sqrt(s2 + eps) + b: up to the rounding
\* of the arithmetic (one unit of resolution per rounded operation, scaled
\* by the operand it is multiplied with), and exactly where the square root
\* and the quotients by it are exact.
C16_BatchNormFold ==
    (call.op = "call" /\ call.commit = "True") =>
        LET g == state_dict["bn.weight"]
            b == state_dict["bn.bias"]
            mu == state_dict["bn.running_mean"]
            s2 == state_dict["bn.running_var"]
            r == FxSqrt(s2 + Eps)
            scale == ArrayOf(Slot("bn", "SCALE")).val
            shift == ArrayOf(Slot("bn", "SHIFT")).val
            exact == /\ r * r = (s2 + Eps) * Q
                     /\ (g * Q) % r = 0
                     /\ (mu * Q) % r = 0
            Ref(x) == FxDiv(FxMul(g, x - mu), r) + b
        IN  /\ r > 0 /\ r * r <= (s2 + Eps) * Q /\ (s2 + Eps) * Q < (r + 1) * (r + 1)
            /\ scale * r <= g * Q /\ g * Q < (scale + 1) * r
            /\ Abs(shift - (FxMul(-mu, scale) + b)) <= (g + mu) \div Q + 1
            /\ \A x \in Xs :
                  Abs(FxMul(scale, x) + shift - Ref(x))
                      <= (Abs(x) + g) \div Q + Q \div r + 3
            /\ exact =>
                  /\ scale * r = g * Q
                  /\ shift = FxMul(-mu, scale) + b
                  /\ \A x \in Xs : FxMul(scale, x) + shift = Ref(x)
            /\ engine.weights[Slot("bn", "SCALE")].val = scale
            /\ engine.weights[Slot("bn", "SHIFT")].val = shift

\* a fold with every parameter different from zero is committed
C16_Witness ==
    /\ call.op = "call" /\ call.commit = "True"
    /\ \A n \in BNNames : state_dict[n] > 0
    /\ ArrayOf(Slot("bn", "SCALE")).val > 0
    /\ ArrayOf(Slot("bn", "SHIFT")).val # state_dict["bn.bias"]


\* the steps of __call__ among the calls a handler made (the others are
\* the calls refit_engine makes on the refitter)
CallSteps(rec) ==
    LET IsCallStep(x) == x \in {"build_tensorrt", "refit_engine", "is_cuda",
                                "synchronize", "inference_async", "forward"}
    IN  SelectSeq(rec.steps, IsCallStep)

\* C17: a call that invokes the execution context has made, in this order
\* and each at most once: build_tensorrt (exactly when it found built
\* false), refit_engine (exactly when it found need_refit true), the
\* placement check, the synchronization barrier and the invocation, the
\* whole refit transaction lying between the build and the placement
\* check; the first inference-mode call on a fresh module makes all five.
C17_OrderOfInference ==
    Invoked =>
        /\ CallSteps(call) =
              (IF call.before.built THEN <<>> ELSE <<"build_tensorrt">>)
              \o (IF call.before.need_refit THEN <<"refit_engine">> ELSE <<>>)
              \o <<"is_cuda", "synchronize", "inference_async">>
        /\ call.before.need_refit =>
              /\ Count(call, "refit_cuda_engine") = 1
              /\ Pos(call, "refit_engine") < Pos(call, "refit_cuda_engine")
              /\ Pos(call, "refit_cuda_engine") < Pos(call, "is_cuda")
        /\ ~call.before.need_refit => ~Ran(call, "refit_cuda_engine")
        /\ ~call.before.built => call.before.need_refit

\* the first inference-mode call on a fresh module: build, one refit,
\* inference
C17_Witness ==
    /\ Invoked
    /\ ~call.entered
    /\ CallSteps(call) = <<"build_tensorrt", "refit_engine", "is_cuda",
                           "synchronize", "inference_async">>


\* C18: a call in training mode runs neither build_tensorrt nor
\* refit_engine nor the execution context, sets need_refit, leaves built,
\* the engine, the execution context, the weight-role table and the output
\* names and shapes as they are, and returns what forward returns.
C18_TrainingCallFrame ==
    [][(call'.op = "call" /\ training) =>
          /\ call'.steps = <<"forward">>
          /\ call'.raised = NoError
          /\ call'.returned = Returns("forward", <<>>)
          /\ need_refit'
          /\ UNCHANGED <<training, built, engine, ctx, refit_weight_dict,
                         output_names, output_shapes, state_dict>>]_vars

\* a training-mode call on a built module whose engine was up to date
C18_Witness ==
    /\ call.op = "call"
    /\ training
    /\ call.before.built /\ ~call.before.need_refit
    /\ built /\ need_refit
    /\ IsEngine(engine)
    /\ call.returned.kind = "forward"

\* C19: need_refit is false only on a built module, built never goes back
\* from true to false, and a module is in one of three states: not built
\* with need_refit true, built with need_refit true, built with need_refit
\* false.
C19_Lifecycle ==
    /\ [](~need_refit => built)
    /\ [](<<built, need_refit>> \in {<<FALSE, TRUE>>, <<TRUE, TRUE>>, <<TRUE, FALSE>>})
    /\ [][built => built']_vars

\* the third state: built, with need_refit false
C19_Witness == built /\ ~need_refit /\ call.op = "call" /\ ~call.before.built


\* C20: an inference-mode call that fails the placement check has run
\* the build (if the module was not built) and has committed the refit (if
\* need_refit was true) before it failed, and leaves built true and
\* need_refit false; the next call, made in inference mode, runs neither
\* build_tensorrt nor refit_engine, and invokes the execution context if
\* its inputs are on the GPU.
C20_PlacementAfterBuildAndRefit ==
    /\ [](call.cause = "placement" =>
            /\ built /\ ~need_refit
            /\ ~call.before.built =>
                  (Ran(call, "build_tensorrt") /\ IsEngine(engine))
            /\ call.before.need_refit =>
                  (call.commit = "True" /\ engine.weights = Current)
            /\ Ran(call, "build_tensorrt") =>
                  Pos(call, "build_tensorrt") < Pos(call, "is_cuda")
            /\ Ran(call, "refit_cuda_engine") =>
                  Pos(call, "refit_cuda_engine") < Pos(call, "is_cuda"))
    /\ [][(call.cause = "placement" /\ call'.op = "call" /\ ~training) =>
            /\ ~Ran(call', "build_tensorrt")
            /\ ~Ran(call', "refit_engine")
            /\ call'.is_cuda => call'.steps = <<"is_cuda", "synchronize",
                                                "inference_async">>]_vars

\* a module that was not built, need_refit true, is called in inference
\* mode on inputs that are not on the GPU: the call builds, refits, fails
C20_Witness ==
    /\ call.cause = "placement"
    /\ ~call.before.built /\ call.before.need_refit
    /\ built /\ ~need_refit


====
